---- MODULE Spec2Model ----
(***************************************************************************)
(* A model of mpltools/special/errorfill.py: the error-band computation    *)
(* extrema_from_error_input and the line + fill composition errorfill on   *)
(* one drawing surface (a matplotlib Axes).                                *)
(*                                                                         *)
(* Numbers are integers.  Opacities are fixed-point: alpha and alpha_fill  *)
(* are given in tenths, and their product is therefore in hundredths.      *)
(***************************************************************************)
EXTENDS Integers, Sequences, FiniteSets

VARIABLES
    ax,        \* the drawing surface: its artists and its color rotation
    warnings,  \* the messages passed to warnings.warn so far
    calls,     \* the calls of errorfill so far: arguments and outcome of each
    ext        \* a direct call of extrema_from_error_input: arguments and result

vars == <<ax, warnings, calls, ext>>

\* ------------------------------------------------------------------ bounds
MaxLen == 3      \* longest series
MaxVal == 1      \* series values are 0..MaxVal
MaxErr == 1      \* error magnitudes are 0..MaxErr
MaxCalls == 3    \* longest sequence of errorfill calls on one surface
NumColors == 2   \* length of the surface's color rotation

\* --------------------------------------------------- numpy arrays (numbers)
\* An array is its shape and its elements in row-major order, as numpy keeps
\* it.  A scalar has the empty shape.  None is the value no array has.
Scalar(e) == [shape |-> <<>>, data |-> <<e>>]
OneD(s) == [shape |-> <<Len(s)>>, data |-> s]
Pair(lo, hi) == [shape |-> <<2, Len(lo)>>, data |-> lo \o hi]
None == [shape |-> <<>>, data |-> <<>>]

Max(a, b) == IF a >= b THEN a ELSE b

\* np.isscalar(a)
isscalar(a) == a.shape = <<>>

\* len(a), for an array of rank >= 1
len(a) == a.shape[1]

\* a[k], k counted from 0: the k-th row of a rank-2 array, the k-th element
\* (a scalar) of a rank-1 array
Item(a, k) ==
    LET rest == Tail(a.shape)
        size == IF rest = <<>> THEN 1 ELSE rest[1]
    IN  [shape |-> rest, data |-> SubSeq(a.data, k * size + 1, (k + 1) * size)]

\* The shape padded on the left with 1s to rank 2, as broadcasting aligns it.
Pad(s) == IF Len(s) = 0 THEN <<1, 1>> ELSE IF Len(s) = 1 THEN <<1, s[1]>> ELSE s

\* a + sign * b elementwise under numpy broadcasting (ranks 0..2, shapes
\* compatible: every shape the callers below pass is).
Broadcast(a, b, sign) ==
    LET pa == Pad(a.shape)
        pb == Pad(b.shape)
        rows == Max(pa[1], pb[1])
        cols == Max(pa[2], pb[2])
        rank == Max(Len(a.shape), Len(b.shape))
        At(arr, p, i, j) ==
            arr.data[((IF p[1] = 1 THEN 1 ELSE i) - 1) * p[2]
                     + (IF p[2] = 1 THEN 1 ELSE j)]
    IN  [shape |-> IF rank = 0 THEN <<>>
                   ELSE IF rank = 1 THEN <<cols>> ELSE <<rows, cols>>,
         data |-> [k \in 1..(rows * cols) |->
                     LET i == ((k - 1) \div cols) + 1
                         j == ((k - 1) % cols) + 1
                     IN  At(a, pa, i, j) + sign * At(b, pb, i, j)]]

Sub(a, b) == Broadcast(a, b, -1)
Add(a, b) == Broadcast(a, b, 1)

\* ------------------------------------------------- extrema_from_error_input
\* A slip of sign in the upper bound.
extrema_sign_slip(z, zerr) ==
    IF isscalar(zerr) \/ len(zerr) = len(z)
    THEN [exc |-> "", zmin |-> Sub(z, zerr), zmax |-> Sub(z, zerr)]
    ELSE IF len(zerr) = 2
    THEN [exc |-> "", zmin |-> Sub(z, Item(zerr, 0)), zmax |-> Add(z, Item(zerr, 1))]
    ELSE [exc |-> "UnboundLocalError", zmin |-> None, zmax |-> None]

\* An unsupported shape answered with the series itself instead of failing.
extrema_no_failure(z, zerr) ==
    IF isscalar(zerr) \/ len(zerr) = len(z)
    THEN [exc |-> "", zmin |-> Sub(z, zerr), zmax |-> Add(z, zerr)]
    ELSE IF len(zerr) = 2
    THEN [exc |-> "", zmin |-> Sub(z, Item(zerr, 0)), zmax |-> Add(z, Item(zerr, 1))]
    ELSE [exc |-> "", zmin |-> z, zmax |-> z]

\* The result is (zmin, zmax); when neither branch is taken the names are
\* unbound at the return statement and the call raises UnboundLocalError.
extrema_from_error_input(z, zerr) ==
    IF isscalar(zerr) \/ len(zerr) = len(z)
    THEN [exc |-> "", zmin |-> Sub(z, zerr), zmax |-> Add(z, zerr)]
    ELSE IF len(zerr) = 2
    THEN [exc |-> "", zmin |-> Sub(z, Item(zerr, 0)), zmax |-> Add(z, Item(zerr, 1))]
    ELSE [exc |-> "UnboundLocalError", zmin |-> None, zmax |-> None]

\* ------------------------------------------------------- the drawing surface
\* Colors are numbers: the rotation's colors are 1..NumColors, and NoColor is
\* the color=None of the signature.  The surface keeps its artists in the
\* order they were added, and the position of its color rotation.
NoColor == -1
DefaultAlpha == 10
DefaultAlphaFill == 3
BothErrorsMsg == "Setting both yerr and xerr is not supported. Ignore xerr."

Line2D(x, y, color, alpha, label) ==
    [kind |-> "Line2D", x |-> x, y |-> y, color |-> color, alpha |-> alpha,
     label |-> label]

\* The region Axes.fill_between (prim "fill_between": along x, between y1 and
\* y2) or Axes.fill_betweenx (prim "fill_betweenx": along y, between x1 and
\* x2) adds.
PolyCollection(prim, coord, b1, b2, kwargs) ==
    [kind |-> "PolyCollection", prim |-> prim, coord |-> coord, b1 |-> b1,
     b2 |-> b2, color |-> kwargs.color, alpha |-> kwargs.alpha,
     label |-> kwargs.label]

Rectangle(xy, width, height, kwargs) ==
    [kind |-> "Rectangle", xy |-> xy, width |-> width, height |-> height,
     color |-> kwargs.color, alpha |-> kwargs.alpha, label |-> kwargs.label]

add_artist(a, artist) == [a EXCEPT !.artists = Append(@, artist)]

\* Whether a bound lies along the coordinates: a scalar, or as many values.
Along(coord, b) == isscalar(b) \/ b.shape = coord.shape

\* ------------------------------------------------ fill_between, fill_between_x
\* The proxy patch forgotten.
fill_between_no_patch(a, x, y1, y2, kwargs, strict) ==
    IF strict /\ ~(Along(x, y1) /\ Along(x, y2))
    THEN [exc |-> "ValueError", ax |-> a, handle |-> 0]
    ELSE LET a1 == add_artist(a, PolyCollection("fill_between", x, y1, y2, kwargs))
         IN  [exc |-> "", ax |-> a1, handle |-> Len(a1.artists)]

\* The region, then the proxy patch Rectangle((0, 0), 0, 0, **kwargs); the
\* handle of the region is returned.  What Axes.fill_between does with bounds that
\* do not lie along x is decided by the plotting library, not by this file:
\* matplotlib raises ValueError; `strict` chooses between that and a library
\* that draws whatever it is given.
fill_between(a, x, y1, y2, kwargs, strict) ==
    IF strict /\ ~(Along(x, y1) /\ Along(x, y2))
    THEN [exc |-> "ValueError", ax |-> a, handle |-> 0]
    ELSE LET a1 == add_artist(a, PolyCollection("fill_between", x, y1, y2, kwargs))
             a2 == add_artist(a1, Rectangle(<<0, 0>>, 0, 0, kwargs))
         IN  [exc |-> "", ax |-> a2, handle |-> Len(a1.artists)]

\* The vertical primitive called where the horizontal one is meant.
fill_between_x_vertical(a, x, y1, y2, kwargs, strict) ==
    fill_between(a, x, y1, y2, kwargs, strict)

fill_between_x(a, x, y1, y2, kwargs, strict) ==
    IF strict /\ ~(Along(x, y1) /\ Along(x, y2))
    THEN [exc |-> "ValueError", ax |-> a, handle |-> 0]
    ELSE LET a1 == add_artist(a, PolyCollection("fill_betweenx", x, y1, y2, kwargs))
             a2 == add_artist(a1, Rectangle(<<0, 0>>, 0, 0, kwargs))
         IN  [exc |-> "", ax |-> a2, handle |-> Len(a1.artists)]

\* ---------------------------------------------------------------- errorfill
\* The fill opacity left as given.
alpha_fill_unscaled(alpha, alpha_fill) == alpha_fill * 10

\* alpha_fill *= alpha (tenths times tenths: hundredths)
scale_alpha_fill(alpha, alpha_fill) == alpha_fill * alpha

\* The color next(ax._get_lines.prop_cycler)['color'] yields at a position.
cycler_color(pos) == (pos % NumColors) + 1

\* The rotation advanced whether or not a color is supplied.
pick_color_always_next(color, a) ==
    [color |-> IF color = NoColor THEN cycler_color(a.prop_cycler) ELSE color,
     ax |-> [a EXCEPT !.prop_cycler = @ + 1]]

\* if color is None: color = next(ax._get_lines.prop_cycler)['color']
pick_color(color, a) ==
    IF color = NoColor
    THEN [color |-> cycler_color(a.prop_cycler),
          ax |-> [a EXCEPT !.prop_cycler = @ + 1]]
    ELSE [color |-> color, ax |-> a]

\* if yerr is not None and xerr is not None: warnings.warn(msg)
warn_both_errors(w, yerr, xerr) ==
    IF yerr # None /\ xerr # None THEN Append(w, BothErrorsMsg) ELSE w

\* The two tests in the other order.
error_axis_x_first(yerr, xerr) ==
    IF xerr # None THEN "x" ELSE IF yerr # None THEN "y" ELSE ""

\* The elif lost.
error_axis_y_only(yerr, xerr) == IF yerr # None THEN "y" ELSE ""

\* if yerr is not None: ... elif xerr is not None: ...
error_axis(yerr, xerr) ==
    IF yerr # None THEN "y" ELSE IF xerr # None THEN "x" ELSE ""

\* Lines 65-70 on the surface `a` the line is already on: the bounds, then the
\* fill.  An exception of extrema_from_error_input leaves the surface as it is.
draw_band(a, x, y, yerr, xerr, kwargs_fill, strict) ==
    LET axis == error_axis(yerr, xerr)
        e == IF axis = "y" THEN extrema_from_error_input(y, yerr)
             ELSE extrema_from_error_input(x, xerr)
    IN  IF axis = "" THEN [exc |-> "", ax |-> a, handle |-> 0]
        ELSE IF e.exc # "" THEN [exc |-> e.exc, ax |-> a, handle |-> 0]
        ELSE IF axis = "y" THEN fill_between(a, x, e.zmax, e.zmin, kwargs_fill, strict)
        ELSE fill_between_x(a, y, e.zmax, e.zmin, kwargs_fill, strict)

\* The whole call on surface `a` with warnings `w`: the surface and warnings
\* it leaves, the exception it raises ("" when it returns) and the pair
\* (lines, fills) it returns, as positions among the artists (0 is None).
errorfill_on(a, w, x, y, yerr, xerr, color, alpha, alpha_fill, label, label_fill, strict) ==
    LET af == scale_alpha_fill(alpha, alpha_fill)
        picked == pick_color(color, a)
        a1 == add_artist(picked.ax, Line2D(x, y, picked.color, alpha, label))
        w1 == warn_both_errors(w, yerr, xerr)
        kwargs_fill == [color |-> picked.color, alpha |-> af, label |-> label_fill]
        band == draw_band(a1, x, y, yerr, xerr, kwargs_fill, strict)
    IN  [ax |-> band.ax, warnings |-> w1, exc |-> band.exc,
         lines |-> IF band.exc = "" THEN Len(a1.artists) ELSE 0,
         fills |-> band.handle]

Snapshot(a, w) ==
    [nartists |-> Len(a.artists), nwarnings |-> Len(w), prop_cycler |-> a.prop_cycler]

errorfill(x, y, yerr, xerr, color, alpha, alpha_fill, label, label_fill, strict) ==
    LET r == errorfill_on(ax, warnings, x, y, yerr, xerr, color, alpha,
                          alpha_fill, label, label_fill, strict)
    IN  /\ ax' = r.ax
        /\ warnings' = r.warnings
        /\ calls' = Append(calls,
             [x |-> x, y |-> y, yerr |-> yerr, xerr |-> xerr, color |-> color,
              alpha |-> alpha, alpha_fill |-> alpha_fill, label |-> label,
              label_fill |-> label_fill,
              before |-> Snapshot(ax, warnings), after |-> Snapshot(r.ax, r.warnings),
              exc |-> r.exc, lines |-> r.lines, fills |-> r.fills])
        /\ UNCHANGED ext

\* ------------------------------------------------------------------ inputs
SeqsOfLen(S, n) == [1..n -> S]

\* Series of length n: the "x, y : arrays" of the docstring.
Series(n) == {OneD(s) : s \in SeqsOfLen(0..MaxVal, n)}

\* The error specifications: a scalar, a sequence (of any length up to
\* MaxLen + 1, so that every series has a sequence of an unsupported length),
\* and a pair (lo, hi) of two sequences as long as the series.
ScalarErrs == {Scalar(e) : e \in 0..MaxErr}
SeqErrs == UNION {{OneD(s) : s \in SeqsOfLen(0..MaxErr, n)} : n \in 1..(MaxLen + 1)}
PairErrs(n) ==
    {Pair(lo, hi) : lo \in SeqsOfLen(0..MaxErr, n), hi \in SeqsOfLen(0..MaxErr, n)}
ErrSpecs(n) == ScalarErrs \cup SeqErrs \cup PairErrs(n)

IsPairErr(zerr, n) == zerr.shape = <<2, n>>
IsSymmetricErr(zerr, n) == isscalar(zerr) \/ zerr.shape = <<n>>
IsUnsupportedErr(zerr, n) == ~isscalar(zerr) /\ len(zerr) # n /\ len(zerr) # 2

\* ---------------------------------------------------------- initial states
FreshAx == [artists |-> <<>>, prop_cycler |-> 0]
NoRet == [exc |-> "", zmin |-> None, zmax |-> None]
NoExt == [pc |-> "idle", z |-> None, zerr |-> None, ret |-> NoRet]

\* --------------------------------- specification of the pure computation
InitExtrema ==
    /\ ax = FreshAx
    /\ warnings = <<>>
    /\ calls = <<>>
    /\ \E n \in 1..MaxLen : \E z \in Series(n) : \E zerr \in ErrSpecs(n) :
         ext = [pc |-> "call", z |-> z, zerr |-> zerr, ret |-> NoRet]

ExtremaCall ==
    /\ ext.pc = "call"
    /\ ext' = [ext EXCEPT !.pc = "done",
                          !.ret = extrema_from_error_input(ext.z, ext.zerr)]
    /\ UNCHANGED <<ax, warnings, calls>>

NextExtrema == ExtremaCall

SpecExtrema == InitExtrema /\ [][NextExtrema]_vars

\* C1: for a pair (lo, hi) of two sequences as long as the series (N = 2
\* included), the result is two sequences of length N with
\* z[i] - zmin[i] = lo[i] and zmax[i] - z[i] = hi[i].
C1_AsymmetricBounds ==
    (ext.pc = "done" /\ IsPairErr(ext.zerr, len(ext.z))) =>
        LET n == len(ext.z)
            lo == Item(ext.zerr, 0).data
            hi == Item(ext.zerr, 1).data
        IN  /\ ext.ret.exc = ""
            /\ ext.ret.zmin.shape = <<n>>
            /\ ext.ret.zmax.shape = <<n>>
            /\ \A i \in 1..n :
                 /\ ext.z.data[i] - ext.ret.zmin.data[i] = lo[i]
                 /\ ext.ret.zmax.data[i] - ext.z.data[i] = hi[i]

\* C2: for a scalar e or a sequence zerr as long as the series, the result is
\* two sequences of length N with z[i] - zmin[i] = e_i = zmax[i] - z[i]; for a
\* scalar, zmax[i] - zmin[i] = 2 * e.
C2_SymmetricBounds ==
    (ext.pc = "done" /\ IsSymmetricErr(ext.zerr, len(ext.z))) =>
        LET n == len(ext.z)
            e(i) == IF isscalar(ext.zerr) THEN ext.zerr.data[1] ELSE ext.zerr.data[i]
        IN  /\ ext.ret.exc = ""
            /\ ext.ret.zmin.shape = <<n>>
            /\ ext.ret.zmax.shape = <<n>>
            /\ \A i \in 1..n :
                 /\ ext.z.data[i] - ext.ret.zmin.data[i] = e(i)
                 /\ ext.ret.zmax.data[i] - ext.z.data[i] = e(i)
                 /\ isscalar(ext.zerr) =>
                      ext.ret.zmax.data[i] - ext.ret.zmin.data[i] = 2 * ext.zerr.data[1]

\* y = [0, 1], yerr = 1 gives ymin = [-1, 0], ymax = [1, 2].
C2_Witness ==
    /\ ext.pc = "done"
    /\ ext.z = OneD(<<0, 1>>)
    /\ ext.zerr = Scalar(1)
    /\ ext.ret.zmin = OneD(<<-1, 0>>)
    /\ ext.ret.zmax = OneD(<<1, 2>>)

\* ------------------------------------------- specifications of errorfill
\* The data of a call: x = 0, 1, 2, ... and y = 1, 4, 9, ...
XData(n) == OneD([i \in 1..n |-> i - 1])
YData(n) == OneD([i \in 1..n |-> i * i])

\* The error arguments of a call on series of length n: None, a scalar, a
\* sequence of each length up to MaxLen + 1, a pair (lo, hi) of constant
\* sequences of length n.
ErrArgs(n) ==
    {None} \cup ScalarErrs
    \cup {OneD([i \in 1..m |-> i % (MaxErr + 1)]) : m \in 1..(MaxLen + 1)}
    \cup {Pair([i \in 1..n |-> lo], [i \in 1..n |-> hi]) : lo, hi \in 0..MaxErr}

ColorArgs == {NoColor, 1}
AlphaArgs == {5, DefaultAlpha}
AlphaFillArgs == {DefaultAlphaFill, 10, 15}
LabelFillArgs == {"", "band"}

Init ==
    /\ ax = FreshAx
    /\ warnings = <<>>
    /\ calls = <<>>
    /\ ext = NoExt

\* One call on a fresh surface, over every combination of the arguments.
CallErrorfill ==
    /\ calls = <<>>
    /\ \E n \in 1..MaxLen : \E yerr \in ErrArgs(n) : \E xerr \in ErrArgs(n) :
       \E color \in ColorArgs : \E alpha \in AlphaArgs :
       \E alpha_fill \in AlphaFillArgs : \E label_fill \in LabelFillArgs :
       \E strict \in BOOLEAN :
         errorfill(XData(n), YData(n), yerr, xerr, color, alpha, alpha_fill,
                   "line", label_fill, strict)

Next == CallErrorfill

Spec == Init /\ [][Next]_vars

\* Up to MaxCalls calls, one after the other, on the same surface, on the
\* same data and with the default opacities.
CallErrorfillAgain ==
    /\ Len(calls) < MaxCalls
    /\ \E yerr \in {None, Scalar(1), OneD([i \in 1..(MaxLen + 1) |-> 1])} :
       \E xerr \in {None, Scalar(1)} : \E color \in ColorArgs :
       \E label_fill \in LabelFillArgs :
         errorfill(XData(MaxLen), YData(MaxLen), yerr, xerr, color, DefaultAlpha,
                   DefaultAlphaFill, "line", label_fill, TRUE)

NextSeq == CallErrorfillAgain

SpecSeq == Init /\ [][NextSeq]_vars

\* ------------------------------------------------- what a call has done
\* Artists are only ever added, so the artists a call added are those between
\* the counts it found and left.
Added(c) == SubSeq(ax.artists, c.before.nartists + 1, c.after.nartists)
OfKind(s, k) == LET Is(a) == a.kind = k IN SelectSeq(s, Is)
Lines(c) == OfKind(Added(c), "Line2D")
Regions(c) == OfKind(Added(c), "PolyCollection")
Patches(c) == OfKind(Added(c), "Rectangle")
Warned(c) == c.after.nwarnings - c.before.nwarnings
Returned(c) == c.exc = ""
NoErrors(c) == c.yerr = None /\ c.xerr = None
IsLineOf(a, c) == a.kind = "Line2D" /\ a.x = c.x /\ a.y = c.y
IsYBand(r, c) ==
    /\ r.prim = "fill_between"
    /\ r.coord = c.x
    /\ r.b1 = extrema_from_error_input(c.y, c.yerr).zmax
    /\ r.b2 = extrema_from_error_input(c.y, c.yerr).zmin
IsXBand(r, c) ==
    /\ r.prim = "fill_betweenx"
    /\ r.coord = c.y
    /\ r.b1 = extrema_from_error_input(c.x, c.xerr).zmax
    /\ r.b2 = extrema_from_error_input(c.x, c.xerr).zmin

C4_NoFillIffNoError ==
    \A k \in 1..Len(calls) :
        LET c == calls[k]
        IN  /\ Returned(c) => ((c.fills = 0) <=> NoErrors(c))
            /\ NoErrors(c) =>
                 /\ Returned(c)
                 /\ Len(Added(c)) = 1
                 /\ IsLineOf(Added(c)[1], c)
                 /\ c.lines = c.before.nartists + 1
                 /\ Warned(c) = 0

C4_Witness ==
    /\ Len(calls) = 1
    /\ NoErrors(calls[1])
    /\ calls[1].fills = 0
    /\ calls[1].lines = 1
    /\ Len(ax.artists) = 1

\* C5: in every call that draws a fill, the opacity of the region and of its
\* proxy patch is alpha * alpha_fill, and the opacity of the line is alpha.
C5_FillOpacityIsProduct ==
    \A k \in 1..Len(calls) :
        LET c == calls[k]
        IN  Len(Regions(c)) > 0 =>
              /\ \A i \in 1..Len(Regions(c)) : Regions(c)[i].alpha = c.alpha * c.alpha_fill
              /\ \A i \in 1..Len(Patches(c)) : Patches(c)[i].alpha = c.alpha * c.alpha_fill
              /\ \A i \in 1..Len(Lines(c)) : Lines(c)[i].alpha = c.alpha

\* alpha = 0.5, alpha_fill = 0.3: fill opacity 0.15, line opacity 0.5.
C5_Witness ==
    /\ Len(calls) = 1
    /\ calls[1].alpha = 5
    /\ calls[1].alpha_fill = 3
    /\ Len(Regions(calls[1])) = 1
    /\ Regions(calls[1])[1].alpha = 15
    /\ Patches(calls[1])[1].alpha = 15
    /\ Lines(calls[1])[1].alpha = 5

\* C6, as claimed: for every alpha and alpha_fill the fill is at most as
\* opaque as the line (hundredths against tenths).
C6_FillAtMostLine ==
    \A k \in 1..Len(calls) :
        LET c == calls[k]
        IN  \A i \in 1..Len(Regions(c)) : Regions(c)[i].alpha <= 10 * Lines(c)[1].alpha

\* C6, amended: for alpha >= 0 and alpha_fill <= 1 the fill is at most as
\* opaque as the line.
C6_FillAtMostLineInRange ==
    \A k \in 1..Len(calls) :
        LET c == calls[k]
        IN  (c.alpha >= 0 /\ c.alpha_fill <= 10) =>
              \A i \in 1..Len(Regions(c)) : Regions(c)[i].alpha <= 10 * Lines(c)[1].alpha

C6_Witness ==
    /\ Len(calls) = 1
    /\ calls[1].alpha = 5
    /\ calls[1].alpha_fill = 10
    /\ Len(Regions(calls[1])) = 1
    /\ Regions(calls[1])[1].alpha = 50

\* C7: a call without a color advances the rotation by exactly one position
\* and draws its line, region and patch in the k-th color of the rotation,
\* where it is the k-th such call; a call with a color leaves the rotation
\* where it is and draws in that color.
NthRotationColor(k) == ((k - 1) % NumColors) + 1
AutoCallsUpTo(k) == Cardinality({j \in 1..k : calls[j].color = NoColor})
C7_ColorRotation ==
    \A k \in 1..Len(calls) :
        LET c == calls[k]
            used == IF c.color = NoColor THEN NthRotationColor(AutoCallsUpTo(k))
                    ELSE c.color
        IN  /\ c.after.prop_cycler =
                 c.before.prop_cycler + (IF c.color = NoColor THEN 1 ELSE 0)
            /\ Len(Lines(c)) = 1
            /\ \A i \in 1..Len(Added(c)) : Added(c)[i].color = used

\* Without a color, with a color, without a color: the third call draws its
\* line, region and patch in the second color of the rotation.
C7_Witness ==
    /\ Len(calls) = 3
    /\ calls[1].color = NoColor
    /\ calls[2].color # NoColor
    /\ calls[3].color = NoColor
    /\ Len(Added(calls[3])) = 3
    /\ \A i \in 1..3 : Added(calls[3])[i].color = 2
    /\ ax.prop_cycler = 2

\* C8: every region on the surface is followed at once by one zero-size
\* rectangle at (0, 0) of the same color, opacity and label, and every
\* rectangle follows a region; a call without an error adds no patch; when
\* every call has returned, there are as many patches as regions as calls
\* that supplied yerr or xerr.
C8_OneProxyPatchPerFill ==
    LET n == Len(ax.artists)
        IsProxyOf(p, r) ==
            /\ p.kind = "Rectangle"
            /\ p.xy = <<0, 0>> /\ p.width = 0 /\ p.height = 0
            /\ p.color = r.color /\ p.alpha = r.alpha /\ p.label = r.label
        WithError == {k \in 1..Len(calls) : ~NoErrors(calls[k])}
    IN  /\ \A i \in 1..n :
             ax.artists[i].kind = "PolyCollection" =>
                (i < n /\ IsProxyOf(ax.artists[i + 1], ax.artists[i]))
        /\ \A i \in 1..n :
             ax.artists[i].kind = "Rectangle" =>
                (i > 1 /\ ax.artists[i - 1].kind = "PolyCollection")
        /\ \A k \in 1..Len(calls) : NoErrors(calls[k]) => Len(Patches(calls[k])) = 0
        /\ (\A k \in 1..Len(calls) : Returned(calls[k])) =>
              /\ Len(OfKind(ax.artists, "Rectangle")) = Cardinality(WithError)
              /\ Len(OfKind(ax.artists, "PolyCollection")) = Cardinality(WithError)

C8_Witness ==
    /\ Len(calls) = 3
    /\ \A k \in 1..3 : Returned(calls[k])
    /\ NoErrors(calls[2])
    /\ calls[1].yerr # None
    /\ calls[3].yerr = None /\ calls[3].xerr # None
    /\ Len(OfKind(ax.artists, "Rectangle")) = 2
    /\ calls[1].label_fill # calls[3].label_fill

\* What a call that fails on the shape of its error leaves behind: the line,
\* a color taken from the rotation if none was supplied, no region, no patch.
FailedAfterLine(c) ==
    /\ ~Returned(c)
    /\ Len(Added(c)) = 1
    /\ IsLineOf(Added(c)[1], c)
    /\ c.after.prop_cycler = c.before.prop_cycler + (IF c.color = NoColor THEN 1 ELSE 0)

\* C9, as claimed: a call with an error specification of an unsupported shape
\* fails, with the line drawn and no region and no patch.
C9_UnsupportedShapeFails ==
    \A k \in 1..Len(calls) :
        LET c == calls[k]
        IN  (IsUnsupportedErr(c.yerr, len(c.y)) \/ IsUnsupportedErr(c.xerr, len(c.x)))
              => FailedAfterLine(c)

\* C9, amended: a call whose error specification in use (yerr, or xerr when
\* yerr is None) has an unsupported shape fails, with the line drawn and no
\* region and no patch.
C9_UnsupportedShapeInUseFails ==
    \A k \in 1..Len(calls) :
        LET c == calls[k]
        IN  (\/ IsUnsupportedErr(c.yerr, len(c.y))
             \/ (c.yerr = None /\ IsUnsupportedErr(c.xerr, len(c.x))))
              => (FailedAfterLine(c) /\ c.exc = "UnboundLocalError")

C9_Witness ==
    /\ Len(calls) = 1
    /\ calls[1].yerr = OneD(<<1>>)
    /\ calls[1].color = NoColor
    /\ calls[1].exc = "UnboundLocalError"
    /\ Len(ax.artists) = 1
    /\ ax.artists[1].kind = "Line2D"
    /\ ax.prop_cycler = 1

====
